---- MODULE Spec2Model ----
(***************************************************************************)
(* forta-node: the Fleet Supervisor (services/containers/supervision.go)   *)
(* and the Inspection Scheduler (services/inspector/inspector.go).         *)
(*                                                                         *)
(* The two services share no state.  FleetSpec runs the supervisor's       *)
(* handlers, RunTwiceSpec the "run the same batch twice" scenario,         *)
(* InspectorSpec the scheduler's goroutines and handler, and               *)
(* InspectorFairSpec the same under the fairness of the Go scheduler.      *)
(***************************************************************************)
EXTENDS Integers, Sequences, FiniteSets, TLC

\* ------------------------------------------------------------------ bounds
MaxBatch == 2       \* longest payload of a run or stop message
MaxMsgs == 2        \* control messages delivered in one behaviour
MaxBlock == 4       \* largest block number a signal or the chain RPC reports
MaxCadence == 2     \* largest configured inspection cadence (inspectEvery)
MaxAttempts == 3    \* attempts after which the retry budget is surely spent

VARIABLES
    \* ---- Fleet Supervisor (TxNodeService)
    containers,     \* t.containers: sequence of [Name, ID]
    mu,             \* t.mu: "free", or the handler holding it ("run" / "stop")
    rpc,            \* handleAgentRun: "idle" | "lock" | "loop"
    rpayload,       \* its payload
    ri,             \* index of the descriptor its range loop is at
    rret,           \* its last return: "none" | "nil"
    spc,            \* handleAgentStop: "idle" | "lock" | "loop"
    spayload,       \* its payload
    si,             \* index of the descriptor its range loop is at
    stopped,        \* its local map stopped[container.ID]
    sret,           \* its last return: "none" | "nil" | "err"
    \* ---- container runtime (t.client)
    rtRunning,      \* the agent containers the runtime is running: set of [Name, ID]
    nextID,         \* the ID the runtime gives the next container it starts
    \* ---- observations
    nStart,         \* StartContainer calls made so far, per container name
    nRunning,       \* "agents:status:running" publications so far, per descriptor
    stopCalled,     \* payload positions handleAgentStop called StopContainer for (this invocation)
    stopFailedAt,   \* payload position whose StopContainer failed (0: none, this invocation)
    stopPub,        \* "agents:status:stopped" payloads published (this invocation)
    entryTable,     \* t.containers when handleAgentStop took the lock
    anyFail,        \* some runtime call has returned something other than success
    nRunMsgs,       \* "agents:run" messages delivered
    nStopMsgs       \* "agents:stop" messages delivered

fleetVars == <<containers, mu, rpc, rpayload, ri, rret, spc, spayload, si, stopped, sret,
               rtRunning, nextID, nStart, nRunning, stopCalled, stopFailedAt, stopPub,
               entryTable, anyFail, nRunMsgs, nStopMsgs>>

VARIABLES
    \* ---- Inspection Scheduler (Inspector)
    localDisabled,  \* cfg: LocalModeConfig.Enable && !LocalModeConfig.EnableInspection
    inspectEvery,   \* ins.inspectEvery
    started,        \* Start: "no" | "yes" | "disabled"
    cancelled,      \* ins.ctx is done
    inspectCh,      \* ins.inspectCh: the values buffered in the channel
    sinceEvent,     \* minutes from ins.latestBlockEventTime to now, kept up to timeout + 1
    lastErr,        \* ins.lastErr: the errors set on the health tracker
    hpc,            \* handleScannerBlock: "idle" | "push" (at the select)
    hval,           \* its inspectionBlockNum
    hlog,           \* what its last call logged: "none" | "unqualified" | "triggered" | "busy"
    tpc,            \* inspectionTimeoutWorker: "off" | "timer" | "send" | "exited"
    tval,           \* the value its channel send carries
    trpc,           \* the chain RPC's answer behind the send in progress ("dial" |
                    \* "blockNumber" | "ok"), else how the last tick ended without a
                    \* send: "skipped" (no call made) | "ok"; "none" otherwise
    wpc,            \* worker goroutine: "off" | "recv" | "attempt" | "backoff" | "exited"
    blockNum,       \* the value the worker received
    \* ---- observations, per dequeued request
    attemptErrs,    \* for each runInspection call so far, whether it returned an error
    donePub,        \* the results published to "inspection:done"
    retryRet        \* what backoff.Retry returned: "none" | "nil" | "err"

inspVars == <<localDisabled, inspectEvery, started, cancelled, inspectCh, sinceEvent,
              lastErr, hpc, hval, hlog, tpc, tval, trpc, wpc, blockNum, attemptErrs,
              donePub, retryRet>>

vars == <<fleetVars, inspVars>>

\* ------------------------------------------------------------ descriptors
\* The agents A and B of the control messages.
AgentIDs == {"A", "B"}

\* config.AgentConfig: the field the supervisor's bookkeeping reads
Descriptors == [ID : AgentIDs]

\* agent.ContainerName(): a deterministic function of the agent ID alone
ContainerName(agent) == <<"forta-agent", agent.ID>>

Names == {ContainerName(d) : d \in Descriptors}

\* messaging.AgentPayload: a sequence of descriptors
Batches == UNION {[1..n -> Descriptors] : n \in 0..MaxBatch}

DistinctNames(payload) ==
    \A i, j \in 1..Len(payload) :
        ContainerName(payload[i]) = ContainerName(payload[j]) => i = j

\* -------------------------------------------------------- the Fleet Table
\* getContainerUnsafe: position of the first record with that name, 0 when none
\* (the code's (container, ok) pair: ok is position > 0).
getContainerNever(tbl, name) == 0

getContainerLastOnly(tbl, name) ==
    IF Len(tbl) > 0 /\ tbl[Len(tbl)].Name = name THEN Len(tbl) ELSE 0

getContainerUnsafe(tbl, name) ==
    IF \E i \in 1..Len(tbl) : tbl[i].Name = name
    THEN CHOOSE i \in 1..Len(tbl) :
            /\ tbl[i].Name = name
            /\ \A j \in 1..(i - 1) : tbl[j].Name # name
    ELSE 0

addContainerUnsafe(tbl, container) == Append(tbl, container)

\* ---------------------------------------------------------------- startAgent
\* What the runtime answers to the calls of one startAgent.
AttachResults == {"ok", "already", "error"}
\* What the runtime answers to the calls of one startAgent: ensureLocalImage,
\* CreatePublicNetwork, StartContainer, AttachNetwork for the scanner (1) and for
\* the JSON-RPC proxy (2).  A call startAgent does not reach has no answer; it is
\* written as success.
StartOutcomes ==
    {o \in [image : BOOLEAN, network : BOOLEAN, start : BOOLEAN,
            attach : [1..2 -> AttachResults]] :
        /\ ~o.image => o.network
        /\ ~(o.image /\ o.network) => o.start
        /\ ~(o.image /\ o.network /\ o.start) => o.attach[1] = "ok"
        /\ ~(o.image /\ o.network /\ o.start /\ o.attach[1] # "error") =>
                o.attach[2] = "ok"}

\* The scanner and the JSON-RPC proxy are attached in this order; the loop
\* returns at the first answer that is neither success nor ErrAlreadyExistsInNetwork.
attachFailsUnlessOk(o) ==
    \/ o.attach[1] # "ok"
    \/ o.attach[2] # "ok"

attachFails(o) ==
    \/ o.attach[1] = "error"
    \/ o.attach[2] = "error"

\* StartContainer is reached once the image and the network are there.
startReached(o) == o.image /\ o.network

\* startAgent's return value: TRUE for an error
startAgentErrImageOnly(o) == ~o.image

startAgentErr(o) ==
    \/ ~o.image
    \/ ~o.network
    \/ ~o.start
    \/ attachFails(o)

\* Some call startAgent made answered something other than success.
outcomeNotClean(o) ==
    \/ ~o.image
    \/ o.image /\ ~o.network
    \/ startReached(o) /\ ~o.start
    \/ startReached(o) /\ o.start /\ o.attach[1] # "ok"
    \/ startReached(o) /\ o.start /\ o.attach[1] # "error" /\ o.attach[2] # "ok"

\* ------------------------------------------------------------ handleAgentRun
RunCall(payload) ==
    /\ rpc = "idle"
    /\ rpc' = "lock"
    /\ rpayload' = payload
    /\ ri' = 1
    /\ nRunMsgs' = nRunMsgs + 1
    /\ UNCHANGED <<containers, mu, spc, spayload, si, stopped, sret, rtRunning, nextID,
                   nStart, nRunning, stopCalled, stopFailedAt, stopPub, entryTable, anyFail,
                   nStopMsgs>>
    /\ rret' = "none"
    /\ UNCHANGED inspVars

\* t.mu.Lock() of handleAgentRun
RunNoLock ==
    /\ rpc = "lock"
    /\ mu' = "run"
    /\ rpc' = "loop"
    /\ UNCHANGED <<containers, rpayload, ri, spc, spayload, si, stopped, sret, rtRunning,
                   nextID, nStart, nRunning, stopCalled, stopFailedAt, stopPub, entryTable,
                   anyFail, nRunMsgs, nStopMsgs>>
    /\ UNCHANGED <<rret, inspVars>>

RunLock ==
    /\ rpc = "lock"
    /\ mu = "free"
    /\ mu' = "run"
    /\ rpc' = "loop"
    /\ UNCHANGED <<containers, rpayload, ri, spc, spayload, si, stopped, sret, rtRunning,
                   nextID, nStart, nRunning, stopCalled, stopFailedAt, stopPub, entryTable,
                   anyFail, nRunMsgs, nStopMsgs>>
    /\ UNCHANGED <<rret, inspVars>>

\* An iteration that finds the name in the table: "already running - skipped",
\* the status published.
RunSkip ==
    /\ rpc = "loop"
    /\ ri <= Len(rpayload)
    /\ getContainerUnsafe(containers, ContainerName(rpayload[ri])) > 0
    /\ nRunning' = [nRunning EXCEPT ![rpayload[ri]] = @ + 1]
    /\ ri' = ri + 1
    /\ UNCHANGED <<containers, rtRunning, nextID, nStart, anyFail>>
    /\ UNCHANGED <<mu, rpc, rpayload, spc, spayload, si, stopped, sret, stopCalled,
                   stopFailedAt, stopPub, entryTable, nRunMsgs, nStopMsgs>>
    /\ UNCHANGED <<rret, inspVars>>

\* An iteration that calls startAgent, the runtime answering o.
RunStart(o) ==
    /\ rpc = "loop"
    /\ ri <= Len(rpayload)
    /\ getContainerUnsafe(containers, ContainerName(rpayload[ri])) = 0
    /\ LET agent == rpayload[ri]
           name == ContainerName(agent)
       IN  /\ nStart' = IF startReached(o)
                        THEN [nStart EXCEPT ![name] = @ + 1] ELSE nStart
           /\ IF startReached(o) /\ o.start
              THEN /\ rtRunning' = rtRunning \cup {[Name |-> name, ID |-> nextID]}
                   /\ nextID' = nextID + 1
              ELSE UNCHANGED <<rtRunning, nextID>>
           /\ anyFail' = (anyFail \/ outcomeNotClean(o))
           /\ IF startAgentErr(o)
              THEN UNCHANGED <<containers, nRunning>>
              ELSE /\ containers' = addContainerUnsafe(containers,
                                         [Name |-> name, ID |-> nextID])
                   /\ nRunning' = [nRunning EXCEPT ![agent] = @ + 1]
    /\ ri' = ri + 1
    /\ UNCHANGED <<mu, rpc, rpayload, spc, spayload, si, stopped, sret, stopCalled,
                   stopFailedAt, stopPub, entryTable, nRunMsgs, nStopMsgs>>
    /\ UNCHANGED <<rret, inspVars>>

\* One iteration of the range loop, startAgent included.
RunStep ==
    \/ RunSkip
    \/ \E o \in StartOutcomes : RunStart(o)

\* return nil, the deferred Unlock
RunReturn ==
    /\ rpc = "loop"
    /\ ri > Len(rpayload)
    /\ rpc' = "idle"
    /\ mu' = "free"
    /\ UNCHANGED <<containers, rpayload, ri, spc, spayload, si, stopped, sret, rtRunning,
                   nextID, nStart, nRunning, stopCalled, stopFailedAt, stopPub, entryTable,
                   anyFail, nRunMsgs, nStopMsgs>>
    /\ rret' = "nil"
    /\ UNCHANGED inspVars

\* ----------------------------------------------------------- handleAgentStop
\* The table after "Remove the stopped agents from the list".
remainingContainers(tbl, stoppedIDs) ==
    SelectSeq(tbl, LAMBDA container : container.ID \notin stoppedIDs)

\* The early return on a StopContainer error: the table it leaves, what it publishes.
stopFailureEager(tbl, stoppedIDs) ==
    [containers |-> remainingContainers(tbl, stoppedIDs), pub |-> <<>>]

stopFailure(tbl, stoppedIDs) ==
    [containers |-> tbl, pub |-> <<>>]

\* "Broadcast the agent statuses": the payloads published at the end.
stopBroadcastAlways(payload) == <<payload>>

stopBroadcast(payload) ==
    IF Len(payload) > 0 THEN <<payload>> ELSE <<>>

StopCall(payload) ==
    /\ spc = "idle"
    /\ spc' = "lock"
    /\ spayload' = payload
    /\ si' = 1
    /\ stopped' = {}
    /\ sret' = "none"
    /\ stopCalled' = {}
    /\ stopFailedAt' = 0
    /\ stopPub' = <<>>
    /\ nStopMsgs' = nStopMsgs + 1
    /\ UNCHANGED <<containers, mu, rpc, rpayload, ri, rtRunning, nextID, nStart, nRunning,
                   entryTable, anyFail, nRunMsgs>>
    /\ UNCHANGED <<rret, inspVars>>

StopLock ==
    /\ spc = "lock"
    /\ mu = "free"
    /\ mu' = "stop"
    /\ spc' = "loop"
    /\ entryTable' = containers
    /\ UNCHANGED <<containers, rpc, rpayload, ri, spayload, si, stopped, sret, rtRunning,
                   nextID, nStart, nRunning, stopCalled, stopFailedAt, stopPub, anyFail,
                   nRunMsgs, nStopMsgs>>
    /\ UNCHANGED <<rret, inspVars>>

\* One iteration of the first range loop.
StopStep ==
    /\ spc = "loop"
    /\ si <= Len(spayload)
    /\ LET pos == getContainerUnsafe(containers, ContainerName(spayload[si]))
       IN  IF pos = 0
           THEN \* not found - skipping stop action
                /\ si' = si + 1
                /\ UNCHANGED <<containers, mu, spc, stopped, sret, rtRunning, stopCalled,
                               stopFailedAt, stopPub, anyFail>>
           ELSE \E ok \in BOOLEAN :
                /\ stopCalled' = stopCalled \cup {si}
                /\ IF ok
                   THEN /\ rtRunning' = {c \in rtRunning : c.ID # containers[pos].ID}
                        /\ stopped' = stopped \cup {containers[pos].ID}
                        /\ si' = si + 1
                        /\ UNCHANGED <<containers, mu, spc, sret, stopFailedAt, stopPub,
                                       anyFail>>
                   ELSE /\ containers' = stopFailure(containers, stopped).containers
                        /\ stopPub' = stopPub \o stopFailure(containers, stopped).pub
                        /\ stopFailedAt' = si
                        /\ sret' = "err"
                        /\ spc' = "idle"
                        /\ mu' = "free"
                        /\ anyFail' = TRUE
                        /\ UNCHANGED <<si, stopped, rtRunning>>
    /\ UNCHANGED <<rpc, rpayload, ri, spayload, nextID, nStart, nRunning, entryTable,
                   nRunMsgs, nStopMsgs>>
    /\ UNCHANGED <<rret, inspVars>>

\* After the loop: the batch removal, the broadcast, return nil, the deferred Unlock.
StopFinish ==
    /\ spc = "loop"
    /\ si > Len(spayload)
    /\ containers' = remainingContainers(containers, stopped)
    /\ stopPub' = stopPub \o stopBroadcast(spayload)
    /\ sret' = "nil"
    /\ spc' = "idle"
    /\ mu' = "free"
    /\ UNCHANGED <<rpc, rpayload, ri, spayload, si, stopped, rtRunning, nextID, nStart,
                   nRunning, stopCalled, stopFailedAt, entryTable, anyFail, nRunMsgs,
                   nStopMsgs>>
    /\ UNCHANGED <<rret, inspVars>>

\* ======================================================= Inspection Scheduler
ChanCap == 1                    \* make(chan uint64, 1)
blockEventWaitTimeout == 10     \* time.Minute * 10, in minutes

BlockNums == 0..MaxBlock
Cadences == 1..MaxCadence

\* The result value of one inspect.Inspect call: the call that produced it.
Result(block, attempt) == [block |-> block, attempt |-> attempt]

\* time.Now().After(ins.latestBlockEventTime.Add(blockEventWaitTimeout))
staleAtTimeout(since) == since >= blockEventWaitTimeout

stale(since) == since > blockEventWaitTimeout

\* payload.LatestBlockInput > 0 && payload.LatestBlockInput%uint64(ins.inspectEvery) == 0
qualifiesZero(latest, every) == latest % every = 0

qualifies(latest, every) == latest > 0 /\ latest % every = 0

\* payload.LatestBlockInput - uint64(ins.inspectEvery); no wrap-around under qualifies
inspectionBlockNum(latest, every) == latest - every

\* The select with a default case of handleScannerBlock: the channel after it.
pushOverwrite(ch, v) == IF Len(ch) < ChanCap THEN Append(ch, v) ELSE <<v>>

pushNonBlocking(ch, v) == IF Len(ch) < ChanCap THEN Append(ch, v) ELSE ch

\* What rpc.DialContext and BlockNumber answer at one watchdog tick.
RpcOutcomes ==
    {[err |-> "dial", blockNum |-> 0], [err |-> "blockNumber", blockNum |-> 0]}
        \cup {[err |-> "none", blockNum |-> n] : n \in BlockNums}

\* The values a stale tick sends on the channel (none or one).
watchdogSkipsOnError(r, every) ==
    IF r.err = "none" /\ r.blockNum % every = 0 THEN <<r.blockNum>> ELSE <<>>

watchdogRequest(r, every) ==
    IF r.err # "none" THEN <<0>>
    ELSE IF r.blockNum % every = 0 THEN <<r.blockNum>>
    ELSE <<>>

\* runInspection's PublishProto: the publications after a call that returned
\* (results, err).
publishTwice(pubs, results, err) == Append(Append(pubs, results), results)

publishOnSuccess(pubs, results, err) == IF err THEN pubs ELSE Append(pubs, results)

runInspectionPublish(pubs, results, err) == Append(pubs, results)

\* The branch taken when backoff.Retry returns an error ("finally failed to
\* complete inspection"): the health tracker and the channel it leaves.
finallyFailedRequeues(tracker, ch, block) ==
    [lastErr |-> tracker, inspectCh |-> pushNonBlocking(ch, block)]

finallyFailed(tracker, ch, block) == [lastErr |-> tracker, inspectCh |-> ch]

\* ---------------------------------------------------------------------- Start
\* Start: the local-mode gate, the subscription, the two goroutines.
StartUngated ==
    /\ started = "no"
    /\ started' = "yes"
    /\ tpc' = "timer"
    /\ wpc' = "recv"
    /\ UNCHANGED <<localDisabled, inspectEvery, cancelled, inspectCh, sinceEvent, lastErr,
                   hpc, hval, tval, blockNum, attemptErrs, donePub, retryRet>>
    /\ UNCHANGED <<hlog, trpc, fleetVars>>

Start ==
    /\ started = "no"
    /\ IF localDisabled
       THEN /\ started' = "disabled"
            /\ UNCHANGED <<tpc, wpc>>
       ELSE /\ started' = "yes"
            /\ tpc' = "timer"
            /\ wpc' = "recv"
    /\ UNCHANGED <<localDisabled, inspectEvery, cancelled, inspectCh, sinceEvent, lastErr,
                   hpc, hval, tval, blockNum, attemptErrs, donePub, retryRet>>
    /\ UNCHANGED <<hlog, trpc, fleetVars>>

\* The process-wide context is cancelled.
Cancel ==
    /\ ~cancelled
    /\ cancelled' = TRUE
    /\ UNCHANGED <<localDisabled, inspectEvery, started, inspectCh, sinceEvent, lastErr,
                   hpc, hval, tpc, tval, wpc, blockNum, attemptErrs, donePub, retryRet>>
    /\ UNCHANGED <<hlog, trpc, fleetVars>>

\* A minute passes.
AdvanceTime ==
    /\ ~stale(sinceEvent)
    /\ sinceEvent' = sinceEvent + 1
    /\ UNCHANGED <<localDisabled, inspectEvery, started, cancelled, inspectCh, lastErr,
                   hpc, hval, tpc, tval, wpc, blockNum, attemptErrs, donePub, retryRet>>
    /\ UNCHANGED <<hlog, trpc, fleetVars>>

\* --------------------------------------------------------- handleScannerBlock
\* The handler up to its select: the clock, the cadence test.
HandleBlockCall(latest) ==
    /\ started = "yes"
    /\ hpc = "idle"
    /\ sinceEvent' = 0
    /\ IF qualifies(latest, inspectEvery)
       THEN /\ hpc' = "push"
            /\ hval' = inspectionBlockNum(latest, inspectEvery)
            /\ UNCHANGED hlog
       ELSE /\ hlog' = "unqualified"
            /\ UNCHANGED <<hpc, hval>>
    /\ UNCHANGED <<localDisabled, inspectEvery, started, cancelled, inspectCh, lastErr,
                   tpc, tval, wpc, blockNum, attemptErrs, donePub, retryRet>>
    /\ UNCHANGED <<trpc, fleetVars>>

\* The non-blocking insert, then return nil.
HandleBlockPush ==
    /\ hpc = "push"
    /\ inspectCh' = pushNonBlocking(inspectCh, hval)
    /\ hlog' = IF Len(inspectCh) < ChanCap THEN "triggered" ELSE "busy"
    /\ hpc' = "idle"
    /\ hval' = 0
    /\ UNCHANGED <<localDisabled, inspectEvery, started, cancelled, sinceEvent, lastErr,
                   tpc, tval, wpc, blockNum, attemptErrs, donePub, retryRet>>
    /\ UNCHANGED <<trpc, fleetVars>>

\* ---------------------------------------------------- inspectionTimeoutWorker
\* case <-t.C: the staleness test, the RPC calls, the value to send.
WatchdogTick ==
    /\ tpc = "timer"
    /\ IF stale(sinceEvent)
       THEN \E r \in RpcOutcomes :
                LET req == watchdogRequest(r, inspectEvery)
                IN  /\ trpc' = IF r.err = "none" THEN "ok" ELSE r.err
                    /\ IF req = <<>>
                       THEN UNCHANGED <<tpc, tval>>
                       ELSE tpc' = "send" /\ tval' = req[1]
       ELSE /\ trpc' = "skipped"
            /\ UNCHANGED <<tpc, tval>>
    /\ UNCHANGED <<localDisabled, inspectEvery, started, cancelled, inspectCh, sinceEvent,
                   lastErr, hpc, hval, wpc, blockNum, attemptErrs, donePub, retryRet>>
    /\ UNCHANGED <<hlog, fleetVars>>

\* ins.inspectCh <- v: a plain channel send, which waits for room in the buffer.
WatchdogSend ==
    /\ tpc = "send"
    /\ Len(inspectCh) < ChanCap
    /\ inspectCh' = Append(inspectCh, tval)
    /\ tpc' = "timer"
    /\ tval' = 0
    /\ UNCHANGED <<localDisabled, inspectEvery, started, cancelled, sinceEvent, lastErr,
                   hpc, hval, wpc, blockNum, attemptErrs, donePub, retryRet>>
    /\ trpc' = "none"
    /\ UNCHANGED <<hlog, fleetVars>>

\* case <-ctx.Done(): return nil
WatchdogExit ==
    /\ tpc = "timer"
    /\ cancelled
    /\ tpc' = "exited"
    /\ UNCHANGED <<localDisabled, inspectEvery, started, cancelled, inspectCh, sinceEvent,
                   lastErr, hpc, hval, tval, wpc, blockNum, attemptErrs, donePub, retryRet>>
    /\ trpc' = "none"
    /\ UNCHANGED <<hlog, fleetVars>>

\* ------------------------------------------------------- the worker goroutine
\* case blockNum := <-ins.inspectCh
WorkerRecvPeek ==
    /\ wpc = "recv"
    /\ Len(inspectCh) > 0
    /\ blockNum' = Head(inspectCh)
    /\ wpc' = "attempt"
    /\ attemptErrs' = <<>>
    /\ donePub' = <<>>
    /\ retryRet' = "none"
    /\ UNCHANGED <<localDisabled, inspectEvery, started, cancelled, inspectCh, sinceEvent,
                   lastErr, hpc, hval, tpc, tval>>
    /\ UNCHANGED <<hlog, trpc, fleetVars>>

WorkerRecv ==
    /\ wpc = "recv"
    /\ Len(inspectCh) > 0
    /\ blockNum' = Head(inspectCh)
    /\ inspectCh' = Tail(inspectCh)
    /\ wpc' = "attempt"
    /\ attemptErrs' = <<>>
    /\ donePub' = <<>>
    /\ retryRet' = "none"
    /\ UNCHANGED <<localDisabled, inspectEvery, started, cancelled, sinceEvent, lastErr,
                   hpc, hval, tpc, tval>>
    /\ UNCHANGED <<hlog, trpc, fleetVars>>

\* case <-ins.ctx.Done(): return
WorkerExit ==
    /\ wpc = "recv"
    /\ cancelled
    /\ wpc' = "exited"
    /\ UNCHANGED <<localDisabled, inspectEvery, started, cancelled, inspectCh, sinceEvent,
                   lastErr, hpc, hval, tpc, tval, blockNum, attemptErrs, donePub, retryRet>>
    /\ UNCHANGED <<hlog, trpc, fleetVars>>

\* One operation of backoff.Retry: runInspection, then either Retry returns (nil
\* on success, the error once NextBackOff answers Stop) or it sleeps.  The
\* ExponentialBackOff is not bound to ins.ctx, so cancellation does not end it.
WorkerAttempt ==
    /\ wpc = "attempt"
    /\ \E err \in BOOLEAN, stop \in BOOLEAN :
        /\ Len(attemptErrs) + 1 >= MaxAttempts => stop
        /\ attemptErrs' = Append(attemptErrs, err)
        /\ donePub' = runInspectionPublish(donePub,
                          Result(blockNum, Len(attemptErrs) + 1), err)
        /\ IF ~err
           THEN /\ retryRet' = "nil"
                /\ wpc' = "recv"
                /\ UNCHANGED <<lastErr, inspectCh>>
           ELSE IF stop
           THEN /\ retryRet' = "err"
                /\ wpc' = "recv"
                /\ lastErr' = finallyFailed(lastErr, inspectCh, blockNum).lastErr
                /\ inspectCh' = finallyFailed(lastErr, inspectCh, blockNum).inspectCh
           ELSE /\ wpc' = "backoff"
                /\ UNCHANGED <<retryRet, lastErr, inspectCh>>
    /\ UNCHANGED <<localDisabled, inspectEvery, started, cancelled, sinceEvent, hpc, hval,
                   tpc, tval, blockNum>>
    /\ UNCHANGED <<hlog, trpc, fleetVars>>

\* The sleep between two attempts ends.
WorkerBackoff ==
    /\ wpc = "backoff"
    /\ wpc' = "attempt"
    /\ UNCHANGED <<localDisabled, inspectEvery, started, cancelled, inspectCh, sinceEvent,
                   lastErr, hpc, hval, tpc, tval, blockNum, attemptErrs, donePub, retryRet>>
    /\ UNCHANGED <<hlog, trpc, fleetVars>>

\* ------------------------------------------------------------ specifications
FleetInit ==
    /\ containers = <<>>
    /\ mu = "free"
    /\ rpc = "idle"
    /\ rpayload = <<>>
    /\ ri = 1
    /\ rret = "none"
    /\ spc = "idle"
    /\ spayload = <<>>
    /\ si = 1
    /\ stopped = {}
    /\ sret = "none"
    /\ rtRunning = {}
    /\ nextID = 1
    /\ nStart = [n \in Names |-> 0]
    /\ nRunning = [d \in Descriptors |-> 0]
    /\ stopCalled = {}
    /\ stopFailedAt = 0
    /\ stopPub = <<>>
    /\ entryTable = <<>>
    /\ anyFail = FALSE
    /\ nRunMsgs = 0
    /\ nStopMsgs = 0

\* NewInspector: the fields of the Inspector it returns, the configuration it reads.
InspectorInitNow ==
    /\ localDisabled \in BOOLEAN
    /\ inspectEvery \in Cadences
    /\ started = "no"
    /\ cancelled = FALSE
    /\ inspectCh = <<>>
    /\ sinceEvent = 0
    /\ lastErr = <<>>
    /\ hpc = "idle"
    /\ hval = 0
    /\ hlog = "none"
    /\ tpc = "off"
    /\ tval = 0
    /\ trpc = "none"
    /\ wpc = "off"
    /\ blockNum = 0
    /\ attemptErrs = <<>>
    /\ donePub = <<>>
    /\ retryRet = "none"

\* NewInspector: the zero latestBlockEventTime lies more than ten minutes back.
InspectorInit ==
    /\ localDisabled \in BOOLEAN
    /\ inspectEvery \in Cadences
    /\ started = "no"
    /\ cancelled = FALSE
    /\ inspectCh = <<>>
    /\ sinceEvent = blockEventWaitTimeout + 1
    /\ lastErr = <<>>
    /\ hpc = "idle"
    /\ hval = 0
    /\ hlog = "none"
    /\ tpc = "off"
    /\ tval = 0
    /\ trpc = "none"
    /\ wpc = "off"
    /\ blockNum = 0
    /\ attemptErrs = <<>>
    /\ donePub = <<>>
    /\ retryRet = "none"

\* The supervisor alone: one configuration of the scheduler, which takes no step.
FleetOnlyInit == FleetInit /\ InspectorInit /\ ~localDisabled /\ inspectEvery = 1

\* The scheduler alone: the supervisor takes no step.
InspectorOnlyInit == FleetInit /\ InspectorInit

\* The bus delivers "agents:run" and "agents:stop" messages, each subject in sequence.
DeliverRun == \E payload \in Batches : nRunMsgs + nStopMsgs < MaxMsgs /\ RunCall(payload)

DeliverStop == \E payload \in Batches : nRunMsgs + nStopMsgs < MaxMsgs /\ StopCall(payload)

FleetNext ==
    \/ DeliverRun
    \/ RunLock
    \/ RunStep
    \/ RunReturn
    \/ DeliverStop
    \/ StopLock
    \/ StopStep
    \/ StopFinish

FleetSpec == FleetOnlyInit /\ [][FleetNext]_vars

\* "run" delivered twice in sequence with the same payload, nothing else.
DeliverRunAgain ==
    \E payload \in Batches :
        /\ nRunMsgs < 2
        /\ nRunMsgs = 1 => payload = rpayload
        /\ RunCall(payload)

RunTwiceNext ==
    \/ DeliverRunAgain
    \/ RunLock
    \/ RunStep
    \/ RunReturn

RunTwiceSpec == FleetOnlyInit /\ [][RunTwiceNext]_vars

\* "agents:run" messages only: every table a run invocation can meet is the work
\* of earlier run invocations.
RunOnlyNext ==
    \/ DeliverRun
    \/ RunLock
    \/ RunStep
    \/ RunReturn

RunOnlySpec == FleetOnlyInit /\ [][RunOnlyNext]_vars

\* The bus delivers a "scanner:block" message.
DeliverBlock == \E latest \in BlockNums : HandleBlockCall(latest)

InspectorNext ==
    \/ Start
    \/ Cancel
    \/ AdvanceTime
    \/ DeliverBlock
    \/ HandleBlockPush
    \/ WatchdogTick
    \/ WatchdogSend
    \/ WatchdogExit
    \/ WorkerRecv
    \/ WorkerExit
    \/ WorkerAttempt
    \/ WorkerBackoff

InspectorSpec == InspectorOnlyInit /\ [][InspectorNext]_vars

\* The Go scheduler runs every goroutine that can take a step, and a select whose
\* Done case is ready again and again takes it in the end.
InspectorFairness ==
    /\ WF_vars(Start)
    /\ WF_vars(HandleBlockPush)
    /\ WF_vars(WatchdogTick)
    /\ WF_vars(WatchdogSend)
    /\ SF_vars(WatchdogExit)
    /\ WF_vars(WorkerRecv)
    /\ WF_vars(WorkerAttempt)
    /\ WF_vars(WorkerBackoff)
    /\ SF_vars(WorkerExit)

InspectorFairSpec == InspectorSpec /\ InspectorFairness

\* More than ten minutes pass at once without a signal.
LongSilence ==
    /\ ~stale(sinceEvent)
    /\ sinceEvent' = blockEventWaitTimeout + 1
    /\ UNCHANGED <<localDisabled, inspectEvery, started, cancelled, inspectCh, lastErr,
                   hpc, hval, tpc, tval, wpc, blockNum, attemptErrs, donePub, retryRet>>
    /\ UNCHANGED <<hlog, trpc, fleetVars>>

\* The scheduler while the process-wide context is never cancelled; the clock is
\* either fresh or stale.
UncancelledNext ==
    \/ Start
    \/ LongSilence
    \/ DeliverBlock
    \/ HandleBlockPush
    \/ WatchdogTick
    \/ WatchdogSend
    \/ WorkerRecv
    \/ WorkerAttempt
    \/ WorkerBackoff

UncancelledFairness ==
    /\ WF_vars(Start)
    /\ WF_vars(HandleBlockPush)
    /\ WF_vars(WatchdogTick)
    /\ WF_vars(WatchdogSend)
    /\ WF_vars(WorkerRecv)
    /\ WF_vars(WorkerAttempt)
    /\ WF_vars(WorkerBackoff)

UncancelledFairSpec ==
    InspectorOnlyInit /\ [][UncancelledNext]_vars /\ UncancelledFairness

\* ===================================================================== claims
\* The positions of a payload.
Positions(payload) == 1..Len(payload)

\* C1: when "run" is handled twice in sequence with one batch of pairwise distinct
\* container names and every runtime call succeeds, each descriptor's container has
\* had exactly one StartContainer call in total and each descriptor has had exactly
\* two "agents:status:running" publications; no other container was started.
C1_RunTwiceIdempotent ==
    (nRunMsgs = 2 /\ rpc = "idle" /\ ~anyFail /\ DistinctNames(rpayload)) =>
        /\ \A i \in Positions(rpayload) :
            /\ nStart[ContainerName(rpayload[i])] = 1
            /\ nRunning[rpayload[i]] = 2
        /\ \A d \in Descriptors :
            (\A i \in Positions(rpayload) : rpayload[i] # d) =>
                nStart[ContainerName(d)] = 0 /\ nRunning[d] = 0

C1_Witness ==
    /\ nRunMsgs = 2
    /\ rpc = "idle"
    /\ ~anyFail
    /\ DistinctNames(rpayload)
    /\ Len(rpayload) = 2
    /\ Len(containers) = 2

\* C2: the Fleet Table never holds two records with the same container name.
C2_OneRecordPerName ==
    \A i, j \in 1..Len(containers) :
        containers[i].Name = containers[j].Name => i = j

\* A run batch that repeats a container name has been handled, after a runtime
\* failure, and the table holds that name.
C2_Witness ==
    /\ rpc = "idle"
    /\ nRunMsgs > 0
    /\ Len(rpayload) = 2
    /\ ContainerName(rpayload[1]) = ContainerName(rpayload[2])
    /\ anyFail
    /\ getContainerUnsafe(containers, ContainerName(rpayload[1])) > 0

\* The step at which handleAgentStop returns an error.
StopAborts == sret # "err" /\ sret' = "err"

\* C3: a StopContainer failure at any position of a stop batch makes
\* handleAgentStop return an error at that position, with no StopContainer call
\* for later positions, the Fleet Table exactly as it was when the handler took
\* the lock (records of containers stopped earlier in the batch included), and no
\* "agents:status:stopped" publication.
C3_StopFailureAborts ==
    /\ [](stopFailedAt > 0 <=> sret = "err")
    /\ [](sret = "err" =>
            /\ spc = "idle"
            /\ stopFailedAt \in Positions(spayload)
            /\ \A j \in stopCalled : j <= stopFailedAt
            /\ stopPub = <<>>)
    /\ [][StopAborts => containers' = entryTable /\ stopFailedAt' = si]_vars

\* The second descriptor's stop failed after the first one's container was stopped.
C3_Witness ==
    /\ sret = "err"
    /\ stopFailedAt = 2
    /\ stopCalled = {1, 2}
    /\ Cardinality(stopped) = 1
    /\ Len(containers) = 2
    /\ containers = entryTable

\* The descriptor at position i had no record when handleAgentStop took the lock.
NoRecordAtEntry(i) == getContainerUnsafe(entryTable, ContainerName(spayload[i])) = 0

\* Some published "stopped" batch carries descriptor d.
StoppedCarries(d) ==
    \E k \in 1..Len(stopPub) : \E m \in 1..Len(stopPub[k]) : stopPub[k][m] = d

\* C4 as claimed: the "stopped" batch published for a request does not carry a
\* descriptor that had no record in the Fleet Table.
C4_SkippedNotPublished ==
    sret = "nil" =>
        \A i \in Positions(spayload) :
            NoRecordAtEntry(i) => ~StoppedCarries(spayload[i])

\* The step at which handleAgentStop returns nil.
StopCompletes == sret # "nil" /\ sret' = "nil"

\* C4: for a descriptor with no record in the Fleet Table handleAgentStop makes no
\* StopContainer call and leaves the table without a record for it; a handler that
\* returns nil has published exactly one "stopped" batch, the incoming payload
\* itself (that descriptor included), when the payload is non-empty, and nothing
\* when it is empty; nothing is published otherwise.
C4_SkippedStillPublished ==
    /\ [](spc # "lock" =>
            \A i \in Positions(spayload) : NoRecordAtEntry(i) => i \notin stopCalled)
    /\ [](stopPub = IF sret = "nil" /\ Len(spayload) > 0 THEN <<spayload>> ELSE <<>>)
    /\ [][StopCompletes =>
            \A i \in Positions(spayload) :
                NoRecordAtEntry(i) =>
                    getContainerUnsafe(containers', ContainerName(spayload[i])) = 0]_vars

\* A request of two descriptors: the first had no record, the second was stopped.
C4_Witness ==
    /\ sret = "nil"
    /\ Len(spayload) = 2
    /\ NoRecordAtEntry(1)
    /\ stopCalled = {2}
    /\ StoppedCarries(spayload[1])

\* The results of the first n inspect.Inspect calls for the request in hand.
ResultsUpTo(n) == [k \in 1..n |-> Result(blockNum, k)]

\* C5 as claimed: a request whose first two attempts fail and whose third succeeds
\* has exactly one publication to "inspection:done", that of the third attempt.
C5_OnePublication ==
    (retryRet = "nil" /\ attemptErrs = <<TRUE, TRUE, FALSE>>) =>
        donePub = <<Result(blockNum, 3)>>

\* C5: a request whose first two attempts fail and whose third succeeds has three
\* publications to "inspection:done", one per attempt in order; the last one
\* carries the result of the successful attempt.
C5_ThreePublications ==
    (retryRet = "nil" /\ attemptErrs = <<TRUE, TRUE, FALSE>>) =>
        donePub = ResultsUpTo(3)

C5_Witness ==
    /\ retryRet = "nil"
    /\ wpc = "recv"
    /\ attemptErrs = <<TRUE, TRUE, FALSE>>
    /\ Len(donePub) = 3

\* Every attempt made for the request in hand returned an error.
AllAttemptsFailed == \A k \in 1..Len(attemptErrs) : attemptErrs[k]

\* The step at which backoff.Retry gives up.
RetryGivesUp == retryRet # "err" /\ retryRet' = "err"

C7_PublicationPerAttempt ==
    donePub = ResultsUpTo(Len(attemptErrs))

\* Two attempts made, the first of which failed, the second of which succeeded.
C7_Witness ==
    /\ attemptErrs = <<TRUE, FALSE>>
    /\ Len(donePub) = 2

\* C8 as claimed: the watchdog is never held at its channel send while the slot
\* holds a value (its request would be dropped and the loop go on).
C8_WatchdogNeverWaits ==
    ~(tpc = "send" /\ Len(inspectCh) >= ChanCap)

\* C9 as claimed: once the context is cancelled, the watchdog loop and the worker
\* loop both exit in the end.
C9_LoopsExitOnCancel ==
    (cancelled /\ started = "yes") ~> (tpc = "exited" /\ wpc = "exited")

\* C10: a qualifying signal's push never blocks, and with the slot holding a value
\* it is logged "already busy", leaves the slot's value as it is and returns,
\* keeping nothing of the dropped trigger (no other state of the scheduler changes).
C10_BusyPushDropped ==
    /\ [](hpc = "push" => ENABLED HandleBlockPush)
    /\ [][(HandleBlockPush /\ Len(inspectCh) >= ChanCap) =>
            /\ inspectCh' = inspectCh
            /\ hpc' = "idle"
            /\ hval' = 0
            /\ hlog' = "busy"
            /\ UNCHANGED <<localDisabled, inspectEvery, started, cancelled, sinceEvent,
                           lastErr, tpc, tval, wpc, blockNum, attemptErrs, donePub,
                           retryRet>>]_vars

\* A qualifying signal found the slot holding another value and was dropped.
C10_Witness ==
    /\ hlog = "busy"
    /\ hpc = "idle"
    /\ Len(inspectCh) = ChanCap
    /\ inspectCh[1] = MaxBlock - 1

\* C11: with cadence c >= 1, a signal with latest block number "latest" goes on to
\* the push exactly when latest > 0 and latest is a multiple of c; a signal that
\* does not qualify enqueues nothing; the value a qualifying signal puts in the
\* empty slot is exactly latest - c, which is never negative.
C11_EnqueuesLatestMinusCadence ==
    /\ [](inspectEvery >= 1)
    /\ [][\A latest \in BlockNums : HandleBlockCall(latest) =>
            /\ inspectCh' = inspectCh
            /\ hpc' = "push" <=>
                   (latest > 0 /\ \E k \in 1..MaxBlock : latest = k * inspectEvery)
            /\ hpc' = "push" => (hval' = latest - inspectEvery /\ hval' >= 0)]_vars
    /\ [][(HandleBlockPush /\ inspectCh = <<>>) =>
            (inspectCh' = <<hval>> /\ hval >= 0 /\ hlog' = "triggered")]_vars

\* Cadence 2, signal 4: the worker has not received anything, the last signal was
\* a trigger, and the slot holds 2.
C11_Witness ==
    /\ inspectEvery = 2
    /\ hlog = "triggered"
    /\ hpc = "idle"
    /\ retryRet = "none"
    /\ wpc = "recv"
    /\ inspectCh = <<2>>

\* C12: at a watchdog tick more than ten minutes after the last signal at which
\* the chain RPC is unreachable (the dial or the block-number query fails), the
\* watchdog sets out to send block 0 and nothing else; with the slot empty the send
\* can go through at once, and the send puts that one value in the slot once and
\* returns to the timer.
C12_UnreachableEnqueuesZero ==
    /\ [][(WatchdogTick /\ sinceEvent > blockEventWaitTimeout
                /\ trpc' \in {"dial", "blockNumber"}) =>
            (tpc' = "send" /\ tval' = 0 /\ inspectCh' = inspectCh)]_vars
    /\ []((tpc = "send" /\ inspectCh = <<>>) => ENABLED WatchdogSend)
    /\ [][(WatchdogSend /\ inspectCh = <<>>) =>
            (inspectCh' = <<tval>> /\ tpc' = "timer")]_vars
    /\ []((tpc = "send" /\ trpc \in {"dial", "blockNumber"}) => tval = 0)

\* No signal for more than ten minutes, the dial failed, block 0 is on its way into
\* the empty slot.
C12_Witness ==
    /\ sinceEvent > blockEventWaitTimeout
    /\ tpc = "send"
    /\ trpc = "dial"
    /\ tval = 0
    /\ inspectCh = <<>>
    /\ hlog = "unqualified"

\* C13: the critical sections of handleAgentRun and handleAgentStop never
\* interleave: the two handlers are never both between their Lock and their Unlock,
\* and while one of them is there every change of the table, of the runtime and of
\* the publications comes with a step of that handler's loop (or its return) and
\* none of the other handler.
C13_CriticalSectionsExclusive ==
    /\ [](~(rpc = "loop" /\ spc = "loop"))
    /\ [](rpc = "loop" <=> mu = "run")
    /\ [](spc = "loop" <=> mu = "stop")
    /\ [][(mu = "run" /\ (<<containers, rtRunning, nStart, nRunning>>'
                                # <<containers, rtRunning, nStart, nRunning>>
                            \/ Len(stopPub') > Len(stopPub))) =>
            (ri' = ri + 1 /\ spc' = spc /\ si' = si /\ stopped' = stopped)]_vars
    /\ [][(mu = "stop" /\ (<<containers, rtRunning, nStart, nRunning>>'
                                # <<containers, rtRunning, nStart, nRunning>>
                             \/ Len(stopPub') > Len(stopPub))) =>
            ((si' = si + 1 \/ spc' = "idle") /\ rpc' = rpc /\ ri' = ri)]_vars

\* A run invocation is in the middle of its batch, a record already added, while a
\* stop invocation for that agent waits for the lock.
C13_Witness ==
    /\ rpc = "loop"
    /\ ri = 2
    /\ Len(rpayload) = 2
    /\ Len(containers) = 1
    /\ spc = "lock"
    /\ Len(spayload) > 0
    /\ ContainerName(spayload[1]) = containers[1].Name

\* Some step of starting an agent failed: the image, the network creation, the
\* container start or a network attachment.
StartFails(o) ==
    \/ ~o.image
    \/ ~o.network
    \/ ~o.start
    \/ \E k \in 1..2 : o.attach[k] = "error"

\* C14: in a run batch a descriptor whose start fails gets no "running" status and
\* no record, and the loop goes on to the next descriptor; each iteration publishes
\* one "running" status for its descriptor exactly when the table then holds a
\* record for its container name, and none otherwise; the handler leaves its loop
\* only past the last descriptor, returning nil.
C14_FailedStartSkipped ==
    /\ [][ri' = ri + 1 =>
            \A o \in StartOutcomes : (StartFails(o) /\ RunStart(o)) =>
                /\ nRunning' = nRunning
                /\ containers' = containers
                /\ rpc' = "loop"]_vars
    /\ [][(rpc = "loop" /\ ri' # ri) =>
            LET agent == rpayload[ri]
                recorded == getContainerUnsafe(containers', ContainerName(agent)) > 0
            IN  /\ ri' = ri + 1
                /\ rpc' = "loop"
                /\ nRunning' = [nRunning EXCEPT
                                    ![agent] = IF recorded THEN @ + 1 ELSE @]]_vars
    /\ [][(rpc = "loop" /\ rpc' # "loop") =>
            (ri > Len(rpayload) /\ rret' = "nil")]_vars
    /\ [](rret \in {"none", "nil"})

\* One run message for two agents has returned nil: the first agent's start failed
\* (no status, no record), the second was started, recorded and published.
C14_Witness ==
    /\ nRunMsgs = 1
    /\ nStopMsgs = 0
    /\ rpc = "idle"
    /\ rret = "nil"
    /\ anyFail
    /\ Len(rpayload) = 2
    /\ rpayload[1] # rpayload[2]
    /\ nRunning[rpayload[1]] = 0
    /\ nRunning[rpayload[2]] = 1
    /\ Len(containers) = 1
    /\ containers[1].Name = ContainerName(rpayload[2])

\* C15: with local mode enabled and inspection not enabled in it, Start returns
\* without subscribing and without starting the watchdog or the worker; no signal is
\* ever handled, nothing is ever enqueued, no RPC call and no inspection is made,
\* and nothing is published to "inspection:done".
C15_LocalModeInert ==
    localDisabled =>
        /\ started \in {"no", "disabled"}
        /\ tpc = "off"
        /\ wpc = "off"
        /\ hpc = "idle"
        /\ hlog = "none"
        /\ trpc = "none"
        /\ inspectCh = <<>>
        /\ attemptErrs = <<>>
        /\ donePub = <<>>
        /\ retryRet = "none"

\* Start has returned at the local-mode gate and the process has since been
\* shut down.
C15_Witness ==
    /\ localDisabled
    /\ started = "disabled"
    /\ cancelled

\* C16: in startAgent, with image, network and container start succeeding, an
\* "already attached" answer from AttachNetwork for the scanner or for the proxy is
\* not a failure: the other attachment is still made and its answer decides, and
\* when no attachment answers another error the agent is recorded and its
\* "running" status published; any other AttachNetwork error leaves the agent
\* unrecorded and unpublished.
C16_AlreadyAttachedTolerated ==
    [][ri' = ri + 1 =>
        \A o \in StartOutcomes : (o.image /\ o.network /\ o.start /\ RunStart(o)) =>
            LET agent == rpayload[ri]
                aborted == \E k \in 1..2 : o.attach[k] = "error"
            IN  IF aborted
                THEN /\ containers' = containers
                     /\ nRunning' = nRunning
                ELSE /\ Len(containers') = Len(containers) + 1
                     /\ containers'[Len(containers')].Name = ContainerName(agent)
                     /\ nRunning' = [nRunning EXCEPT ![agent] = @ + 1]]_vars

\* One run message for one agent: some runtime call answered something other than
\* success ("already attached"), and yet the agent is recorded and published.
C16_Witness ==
    /\ nRunMsgs = 1
    /\ nStopMsgs = 0
    /\ rpc = "idle"
    /\ Len(rpayload) = 1
    /\ anyFail
    /\ Len(containers) = 1
    /\ containers[1].Name = ContainerName(rpayload[1])
    /\ nRunning[rpayload[1]] = 1

\* C17: every block-progress signal sets the watchdog clock to the time of the
\* signal, whatever its block number, and the push that may follow (made or
\* dropped) leaves the clock there; a watchdog tick ten minutes or less after the
\* most recent signal makes no RPC call, sets out to send nothing and leaves the
\* slot as it is.
C17_SignalResetsClock ==
    /\ [][\A latest \in BlockNums : HandleBlockCall(latest) => sinceEvent' = 0]_vars
    /\ [][HandleBlockPush => sinceEvent' = sinceEvent]_vars
    /\ [][(WatchdogTick /\ sinceEvent <= blockEventWaitTimeout) =>
            /\ trpc' = "skipped"
            /\ tpc' = "timer"
            /\ inspectCh' = inspectCh]_vars

\* A qualifying signal was dropped at a full slot, exactly ten minutes have passed
\* since, and the watchdog's tick made no RPC call.
C17_Witness ==
    /\ hlog = "busy"
    /\ hpc = "idle"
    /\ sinceEvent = blockEventWaitTimeout
    /\ trpc = "skipped"
    /\ tpc = "timer"

\* C18: unless the context is cancelled, a value in the pending-inspection slot is
\* dequeued in the end (the scheduler is fair); the single worker takes the value at
\* the head of the slot, removes it, and works on it alone until backoff.Retry has
\* returned; nothing the worker does puts a value (back) into the slot; the slot
\* never holds more than one value, and one request at most is in flight.
C18_AcceptedInspectedOnce ==
    /\ [](~cancelled)
    /\ [](inspectCh # <<>> => <>(inspectCh = <<>>))
    /\ [](Len(inspectCh) <= ChanCap)
    /\ [][WorkerRecv =>
            /\ wpc = "recv"
            /\ blockNum' = Head(inspectCh)
            /\ inspectCh' = Tail(inspectCh)
            /\ attemptErrs' = <<>>]_vars
    /\ [][(wpc \in {"attempt", "backoff"}) =>
            /\ blockNum' = blockNum
            /\ Len(inspectCh') >= Len(inspectCh)
            /\ (inspectCh # <<>> => inspectCh' = inspectCh)]_vars
    /\ [][(WorkerAttempt \/ WorkerBackoff \/ WorkerExit) => inspectCh' = inspectCh]_vars
    /\ [][(inspectCh # <<>> /\ inspectCh' # inspectCh) => WorkerRecv]_vars

\* One request is in flight (a first attempt failed, the retry sleeps) and another
\* value is pending in the slot.
C18_Witness ==
    /\ ~cancelled
    /\ wpc = "backoff"
    /\ Len(attemptErrs) = 1
    /\ Len(inspectCh) = ChanCap
    /\ inspectCh[1] # blockNum

\* C19 as claimed: between handler invocations the table holds a record for a
\* container name exactly when the runtime is running a container of that name
\* (started by StartContainer, not stopped since by StopContainer).
C19_TableMatchesRuntime ==
    (rpc = "idle" /\ spc = "idle") =>
        \A n \in Names :
            getContainerUnsafe(containers, n) > 0 <=> \E c \in rtRunning : c.Name = n

\* No block-progress signal has been handled yet.
NoSignalYet == hlog = "none" /\ hpc = "idle"

\* C20: the watchdog clock starts more than ten minutes back and only
\* handleScannerBlock sets it; so until the first signal is handled the clock is
\* stale and every watchdog tick makes the RPC query, sets out to send 0 when the
\* query fails, and otherwise sends nothing but a multiple of the cadence.
C20_StalledUntilFirstSignal ==
    /\ [](NoSignalYet => sinceEvent > blockEventWaitTimeout)
    /\ [][sinceEvent' < sinceEvent => \E latest \in BlockNums : HandleBlockCall(latest)]_vars
    /\ [][(WatchdogTick /\ NoSignalYet) =>
            /\ trpc' \in {"dial", "blockNumber", "ok"}
            /\ trpc' # "ok" => (tpc' = "send" /\ tval' = 0)
            /\ tpc' = "send" => (tval' = 0 \/ tval' % inspectEvery = 0)]_vars

\* Before any signal, right after Start: a tick queried the chain RPC, got block 2
\* with cadence 2, and the value is in the slot.
C20_Witness ==
    /\ NoSignalYet
    /\ started = "yes"
    /\ inspectEvery = 2
    /\ tpc = "timer"
    /\ inspectCh = <<2>>
    /\ retryRet = "none"

====
